---- MODULE Spec2Model ----
(***************************************************************************)
(* find_shortest_distance(reference_points, query_points, method) of       *)
(* find_shortest_distance_between_two_point_clouds.ipynb, and the          *)
(* verification cell that calls it a second time with the clouds swapped.  *)
(*                                                                         *)
(* A point is a tuple of integer coordinates, a cloud a sequence of        *)
(* points.  Python indices are kept 0-based: the point of index i of a     *)
(* cloud c is c[i + 1].  A Euclidean distance is represented exactly by    *)
(* its square (the sum of the squared coordinate differences): the square  *)
(* root is strictly increasing on the non-negative numbers, so equality    *)
(* and order of distances are equality and order of these values.          *)
(***************************************************************************)
EXTENDS Integers, Sequences, FiniteSets

\* A cloud has at most MaxPts points.
MaxPts == 2
\* reference_indices is followed up to MaxTrace entries.
MaxTrace == 4

Dims == {1, 2}
Methods == {"new", "exhaustive", "other"}
NoResult == 0 - 1

\* The coordinates of the input points: three columns, and two rows in the plane.
Axis(k) == IF k = 1 THEN 0..2 ELSE 0..1
Points(m) == {p \in [1..m -> 0..2] : \A k \in 1..m : p[k] \in Axis(k)}
CloudsOfDim(m) == UNION {[1..k -> Points(m)] : k \in 0..MaxPts}
Clouds == UNION {CloudsOfDim(m) : m \in Dims}

\* points.shape[0]
NumPoints(points) == Len(points)
\* points.shape[1] of a non-empty cloud
Dim(points) == Len(points[1])
\* the indices of a cloud, 0-based
Indices(points) == 0..(Len(points) - 1)
Last(s) == s[Len(s)]

RECURSIVE SumSq(_, _, _)
SumSq(x, y, k) ==
    IF k = 0 THEN 0
    ELSE (x[k] - y[k]) * (x[k] - y[k]) + SumSq(x, y, k - 1)

\* np.linalg.norm(x - y), as its square
norm(x, y) == SumSq(x, y, Len(x))

\* the smallest element of a non-empty set of numbers
Min(S) == CHOOSE v \in S : \A w \in S : v <= w

\* a query that looks at the first point of the tree only
NearestDistance_first(points, x) == norm(points[1], x)

\* the distance KDTree(points).query(x, k=1) returns: that of a nearest point
NearestDistance(points, x) == Min({norm(points[i + 1], x) : i \in Indices(points)})

\* a query that answers a farthest point
Nearest_farthest(points, x) ==
    {i \in Indices(points) :
        \A j \in Indices(points) : norm(points[j + 1], x) <= norm(points[i + 1], x)}

\* a query that answers the first point of the tree
Nearest_first(points, x) == {0}

\* the indices KDTree(points).query(x, k=1) may return: those of the nearest
\* points; which one of several equidistant points is not specified
Nearest(points, x) ==
    LET nearest_distance == NearestDistance(points, x)
    IN  {i \in Indices(points) : norm(points[i + 1], x) = nearest_distance}

\* A kd-tree is deterministic: asked the same point again, it gives the answer
\* it gave before.  answers maps the points asked so far to the index returned.
NoAnswers == [x \in {} |-> 0]
Answers(answers, points, x) ==
    IF x \in DOMAIN answers THEN {answers[x]} ELSE Nearest(points, x)
Record(answers, x, i) ==
    [y \in DOMAIN answers \cup {x} |-> IF y = x THEN i ELSE answers[y]]

VARIABLES
    reference_points,   \* argument: the reference cloud
    query_points,       \* argument: the query cloud
    method,             \* argument
    query_answers,      \* the index query_kd_tree returned for each point asked
    reference_answers,  \* the index reference_kd_tree returned for each point asked
    pc,                 \* position in find_shortest_distance
    trees,              \* the kd-trees constructed by this call
    nn_calls,           \* the kd-tree queries issued by this call
    reference_indices,  \* the local list of the 'new' method
    query_indices,      \* the local list of the 'new' method
    d,                  \* the distance returned, NoResult before
    error,              \* the exception raised, "none" before
    call,               \* 1: first call of the cell, 2: the call with the clouds swapped
    d1                  \* the distance the first call returned

vars == <<reference_points, query_points, method, query_answers, reference_answers, pc,
          trees, nn_calls, reference_indices, query_indices, d, error, call, d1>>

args == <<reference_points, query_points, method>>
kdtrees == <<query_answers, reference_answers>>
session == <<call, d1>>

\* the two clouds of the specification's concrete scenario
ScenarioReference == <<<<0, 0>>, <<10, 10>>>>
ScenarioQuery == <<<<0, 1>>, <<10, 11>>>>

\* the query clouds of the first call have at most two points; the call with
\* the clouds swapped hands the larger cloud to the query tree
QueryClouds == {points \in Clouds : NumPoints(points) <= 2}

\* the pairs of clouds a call is given: pairs of grid clouds, and the scenario
Inputs == (Clouds \X QueryClouds) \cup {<<ScenarioReference, ScenarioQuery>>}

Init ==
    /\ \E input \in Inputs :
          /\ reference_points = input[1]
          /\ query_points = input[2]
    /\ method \in Methods
    /\ query_answers = NoAnswers
    /\ reference_answers = NoAnswers
    /\ pc = "check_empty"
    /\ trees = {}
    /\ nn_calls = 0
    /\ reference_indices = <<>>
    /\ query_indices = <<>>
    /\ d = NoResult
    /\ error = "none"
    /\ call = 1
    /\ d1 = NoResult

\* raise Exception(...): the call ends, nothing is returned
Raise(e) ==
    /\ pc' = "raised"
    /\ error' = e
    /\ d' = d

\* an emptiness check that forgets the query cloud
CheckEmpty_reference_only ==
    /\ pc = "check_empty"
    /\ IF NumPoints(reference_points) = 0
       THEN Raise("empty")
       ELSE pc' = "build_query_tree" /\ UNCHANGED <<error, d>>
    /\ UNCHANGED <<args, kdtrees, session, trees, nn_calls, reference_indices, query_indices>>

\* "if (reference_points.shape[0] == 0) or (query_points.shape[0] == 0): raise"
CheckEmpty ==
    /\ pc = "check_empty"
    /\ IF NumPoints(reference_points) = 0 \/ NumPoints(query_points) = 0
       THEN Raise("empty")
       ELSE pc' = "build_query_tree" /\ UNCHANGED <<error, d>>
    /\ UNCHANGED <<args, kdtrees, session, trees, nn_calls, reference_indices, query_indices>>

\* a call that compares the dimensions before it builds a tree
BuildQueryTree_failfast ==
    /\ pc = "build_query_tree"
    /\ IF Dim(reference_points) # Dim(query_points)
       THEN Raise("dimension") /\ UNCHANGED trees
       ELSE /\ trees' = trees \cup {"query_kd_tree"}
            /\ pc' = "method"
            /\ UNCHANGED <<d, error>>
    /\ UNCHANGED <<args, kdtrees, session, nn_calls, reference_indices, query_indices>>

\* a tree construction that reorders the array it is given, in place
BuildQueryTree_in_place ==
    /\ pc = "build_query_tree"
    /\ trees' = trees \cup {"query_kd_tree"}
    /\ query_points' = [i \in 1..Len(query_points) |->
                            query_points[Len(query_points) + 1 - i]]
    /\ pc' = "method"
    /\ UNCHANGED <<reference_points, method, kdtrees, session, nn_calls,
                   reference_indices, query_indices, d, error>>

\* query_kd_tree = spatial.KDTree(query_points)
BuildQueryTree ==
    /\ pc = "build_query_tree"
    /\ trees' = trees \cup {"query_kd_tree"}
    /\ pc' = "method"
    /\ UNCHANGED <<args, kdtrees, session, nn_calls, reference_indices, query_indices, d, error>>

\* a loop that starts from the last point of reference_points
BuildReferenceTree_from_last ==
    /\ pc = "method"
    /\ method = "new"
    /\ trees' = trees \cup {"reference_kd_tree"}
    /\ reference_indices' = <<NumPoints(reference_points) - 1>>
    /\ query_indices' = <<>>
    /\ pc' = "query_nn"
    /\ UNCHANGED <<args, kdtrees, session, nn_calls, d, error>>

\* if method == 'new': reference_kd_tree = spatial.KDTree(reference_points);
\* reference_indices = [0]; query_indices = []
BuildReferenceTree ==
    /\ pc = "method"
    /\ method = "new"
    /\ trees' = trees \cup {"reference_kd_tree"}
    /\ reference_indices' = <<0>>
    /\ query_indices' = <<>>
    /\ pc' = "query_nn"
    /\ UNCHANGED <<args, kdtrees, session, nn_calls, d, error>>

\* a loop body that appends index 0, whatever the tree answers
QueryNearest_first ==
    /\ pc = "query_nn"
    /\ nn_calls' = nn_calls + 1
    /\ IF Dim(reference_points) # Dim(query_points)
       THEN Raise("dimension") /\ UNCHANGED query_indices
       ELSE /\ query_indices' = Append(query_indices, 0)
            /\ pc' = "reference_nn"
            /\ UNCHANGED <<error, d>>
    /\ UNCHANGED <<args, kdtrees, session, trees, reference_indices>>

\* first half of the loop body: query_kd_tree.query(reference_point, k=1),
\* which raises ValueError for a point of another dimension
QueryNearest ==
    /\ pc = "query_nn"
    /\ nn_calls' = nn_calls + 1
    /\ IF Dim(reference_points) # Dim(query_points)
       THEN Raise("dimension") /\ UNCHANGED <<query_indices, query_answers>>
       ELSE LET reference_point == reference_points[Last(reference_indices) + 1] IN
            \E query_index \in Answers(query_answers, query_points, reference_point) :
                /\ query_answers' = Record(query_answers, reference_point, query_index)
                /\ query_indices' = Append(query_indices, query_index)
                /\ pc' = "reference_nn"
                /\ UNCHANGED <<error, d>>
    /\ UNCHANGED <<args, reference_answers, session, trees, reference_indices>>

\* a loop that stops after its first round trip
Break_always(reference_index) == TRUE

\* a loop that stops when the point is a new one
Break_inverted(reference_index) == reference_index # Last(reference_indices)

\* a loop that compares with the first entry of reference_indices
Break_first(reference_index) == reference_index = reference_indices[1]

\* a loop that never takes the break
Break_never(reference_index) == FALSE

\* the condition of the break
Break(reference_index) == reference_index = Last(reference_indices)

\* a loop with a cap of one round trip, raising when that round trip does not
\* end at a fixed point
ReferenceNearest_capped ==
    /\ pc = "reference_nn"
    /\ LET query_point == query_points[Last(query_indices) + 1] IN
       \E reference_index \in Answers(reference_answers, reference_points, query_point) :
           /\ reference_answers' = Record(reference_answers, query_point, reference_index)
           /\ IF reference_index = Last(reference_indices)
              THEN pc' = "return" /\ UNCHANGED <<reference_indices, error, d>>
              ELSE IF Len(query_indices) >= 1
                   THEN Raise("nonconvergence") /\ UNCHANGED reference_indices
                   ELSE /\ reference_indices' = Append(reference_indices, reference_index)
                        /\ pc' = "query_nn"
                        /\ UNCHANGED <<error, d>>
    /\ nn_calls' = nn_calls + 1
    /\ UNCHANGED <<args, query_answers, session, trees, query_indices>>

\* a loop body that appends the index found before it tests the break
ReferenceNearest_append_first ==
    /\ pc = "reference_nn"
    /\ LET query_point == query_points[Last(query_indices) + 1] IN
       \E reference_index \in Answers(reference_answers, reference_points, query_point) :
           /\ reference_answers' = Record(reference_answers, query_point, reference_index)
           /\ Len(reference_indices) < MaxTrace
           /\ reference_indices' = Append(reference_indices, reference_index)
           /\ pc' = IF Break(reference_index) THEN "return" ELSE "query_nn"
    /\ nn_calls' = nn_calls + 1
    /\ UNCHANGED <<args, query_answers, session, trees, query_indices, d, error>>

\* second half of the loop body: reference_kd_tree.query(query_point, k=1),
\* then break or append
ReferenceNearest ==
    /\ pc = "reference_nn"
    /\ LET query_point == query_points[Last(query_indices) + 1] IN
       \E reference_index \in Answers(reference_answers, reference_points, query_point) :
           /\ reference_answers' = Record(reference_answers, query_point, reference_index)
           /\ IF Break(reference_index)
              THEN pc' = "return" /\ UNCHANGED reference_indices
              ELSE /\ Len(reference_indices) < MaxTrace
                   /\ reference_indices' = Append(reference_indices, reference_index)
                   /\ pc' = "query_nn"
    /\ nn_calls' = nn_calls + 1
    /\ UNCHANGED <<args, query_answers, session, trees, query_indices, d, error>>

\* The loop as a function, when both kd-trees answer the lowest index among
\* equidistant points: from reference index r, whether a round trip ends at
\* the index it started from (the break) within fuel further round trips.
RECURSIVE ReachesFixedPoint(_, _, _, _)
ReachesFixedPoint(A, B, r, fuel) ==
    LET query_index == Min(Nearest(B, A[r + 1]))
        reference_index == Min(Nearest(A, B[query_index + 1]))
    IN  IF reference_index = r THEN TRUE
        ELSE IF fuel = 0 THEN FALSE
        ELSE ReachesFixedPoint(A, B, reference_index, fuel - 1)

\* a return that takes both points from reference_points
ReturnNew_reference_only ==
    /\ pc = "return"
    /\ d' = norm(reference_points[Last(reference_indices) + 1],
                 reference_points[reference_indices[1] + 1])
    /\ pc' = "returned"
    /\ UNCHANGED <<args, kdtrees, session, trees, nn_calls, reference_indices, query_indices, error>>

\* d = np.linalg.norm(reference_points[reference_indices[-1]]
\*                    - query_points[query_indices[-1]]); return d, ...
ReturnNew ==
    /\ pc = "return"
    /\ d' = norm(reference_points[Last(reference_indices) + 1],
                 query_points[Last(query_indices) + 1])
    /\ pc' = "returned"
    /\ UNCHANGED <<args, kdtrees, session, trees, nn_calls, reference_indices, query_indices, error>>

\* distances, indices = query_kd_tree.query(reference_points)
distances == [i \in Indices(reference_points) |->
                NearestDistance(query_points, reference_points[i + 1])]

\* a minimum that takes the first entry
amin_first(a) == a[0]

\* np.amin(distances)
amin(a) == Min({a[i] : i \in DOMAIN a})

\* elif method == 'exhaustive': one batched query, which raises ValueError
\* for points of another dimension; return np.amin(distances)
Exhaustive ==
    /\ pc = "method"
    /\ method = "exhaustive"
    /\ nn_calls' = nn_calls + 1
    /\ IF Dim(reference_points) # Dim(query_points)
       THEN Raise("dimension")
       ELSE d' = amin(distances) /\ pc' = "returned" /\ UNCHANGED error
    /\ UNCHANGED <<args, kdtrees, session, trees, reference_indices, query_indices>>

\* a function without the else branch: it falls off its end and returns None
InvalidMethod_silent ==
    /\ pc = "method"
    /\ method \notin {"new", "exhaustive"}
    /\ pc' = "returned"
    /\ UNCHANGED <<args, kdtrees, session, trees, nn_calls, reference_indices,
                   query_indices, d, error>>

\* else: raise Exception("The selected method is incorrect! ...")
InvalidMethod ==
    /\ pc = "method"
    /\ method \notin {"new", "exhaustive"}
    /\ Raise("method")
    /\ UNCHANGED <<args, kdtrees, session, trees, nn_calls, reference_indices, query_indices>>

\* show_search_path: the positions (0-based) of reference_indices and of
\* query_indices it reads, i and i + 1 for i in range(len(reference_indices) - 1)
SearchPathReads ==
    UNION {{i, i + 1} : i \in 0..(Len(reference_indices) - 2)}

\* the verification cell: after d1 = find_shortest_distance(reference_points,
\* query_points), d2 = find_shortest_distance(query_points, reference_points);
\* each cloud keeps its kd-tree answers
SwapCall ==
    /\ pc = "returned"
    /\ call = 1
    /\ call' = 2
    /\ d1' = d
    /\ reference_points' = query_points
    /\ query_points' = reference_points
    /\ query_answers' = reference_answers
    /\ reference_answers' = query_answers
    /\ pc' = "check_empty"
    /\ trees' = {}
    /\ nn_calls' = 0
    /\ reference_indices' = <<>>
    /\ query_indices' = <<>>
    /\ d' = NoResult
    /\ UNCHANGED <<method, error>>

Next ==
    \/ CheckEmpty
    \/ BuildQueryTree
    \/ BuildReferenceTree
    \/ QueryNearest
    \/ ReferenceNearest
    \/ ReturnNew
    \/ Exhaustive
    \/ InvalidMethod
    \/ SwapCall

Spec == Init /\ [][Next]_vars

(***************************************************************************)
(* Notions the properties are stated with.                                 *)
(***************************************************************************)

\* the true minimum of the distances over all pairs (a in A, b in B)
MinPairDistance(A, B) ==
    Min({norm(A[i + 1], B[j + 1]) : i \in Indices(A), j \in Indices(B)})

RECURSIVE Dot(_, _, _)
Dot(w, x, k) == IF k = 0 THEN 0 ELSE w[k] * x[k] + Dot(w, x, k - 1)

\* The convex hulls of A and B are disjoint: some direction w separates them
\* strictly.  The nearest points of two disjoint hulls in the plane are a
\* vertex and a vertex, or a vertex and a point of an edge, so a separating
\* direction is a difference of two input points or perpendicular to one:
\* its components are within -2..2.
HullsDisjoint(A, B) ==
    \E w \in [1..Dim(A) -> (0 - 2)..2] :
        \A i \in Indices(A), j \in Indices(B) :
            Dot(w, A[i + 1], Dim(A)) < Dot(w, B[j + 1], Dim(A))

\* every answer the two kd-trees have given is the lowest index among the
\* nearest points
LowestIndexTies ==
    /\ \A x \in DOMAIN query_answers :
          query_answers[x] = Min(Nearest(query_points, x))
    /\ \A x \in DOMAIN reference_answers :
          reference_answers[x] = Min(Nearest(reference_points, x))

ReturnedNew == pc = "returned" /\ method = "new"
ReturnedExhaustive == pc = "returned" /\ method = "exhaustive"

(***************************************************************************)
(* C1.  Agreement: for clouds whose convex hulls are disjoint, the         *)
(* distance the 'new' method returns (started at reference index 0, ties   *)
(* broken by lowest index) is the minimum over all pairs.                  *)
(* Violated: the loop stops at a pair of mutually nearest points that is   *)
(* not the closest pair.                                                   *)
(***************************************************************************)
C1_Agreement ==
    (ReturnedNew /\ LowestIndexTies /\ HullsDisjoint(reference_points, query_points))
        => d = MinPairDistance(reference_points, query_points)

(***************************************************************************)
(* C2.  No silent wrong answer: the 'new' method never returns normally    *)
(* with a distance larger than the true minimum (overlapping clouds        *)
(* included; ties broken by lowest index).  Violated, as C1 is.            *)
(***************************************************************************)
C2_NoSilentWrongAnswer ==
    (ReturnedNew /\ LowestIndexTies)
        => ~(d > MinPairDistance(reference_points, query_points))

(***************************************************************************)
(* C3.  Iteration cap, as claimed, for a cap of one round trip: the call   *)
(* never returns a result after more round trips than the cap (ties broken *)
(* by lowest index).  Violated: the loop has no cap.                       *)
(***************************************************************************)
C3_IterationCap ==
    (ReturnedNew /\ LowestIndexTies) => Len(query_indices) <= 1

(***************************************************************************)
(* C3, amended.  The loop carries no cap: a call with method 'new' ends in *)
(* no error but that of an empty cloud or of mismatched dimensions, which  *)
(* are raised before the first round trip is completed; a call that has    *)
(* completed a round trip is never in error, and once it has returned, the *)
(* two traces are complete and of equal length.                            *)
(***************************************************************************)
C3_NoCap ==
    method = "new" =>
        /\ error \in {"none", "empty", "dimension"}
        /\ Len(query_indices) >= 1 => error = "none"
        /\ pc = "returned" => Len(query_indices) = Len(reference_indices)

\* a call that returned after two round trips
C3_Witness ==
    ReturnedNew /\ LowestIndexTies /\ Len(query_indices) = 2

(***************************************************************************)
(* C4.  Exhaustive result: the 'exhaustive' method returns the minimum of  *)
(* the distances over all n*q pairs, a non-negative value.                 *)
(***************************************************************************)
C4_ExhaustiveResult ==
    ReturnedExhaustive =>
        /\ d = MinPairDistance(reference_points, query_points)
        /\ d >= 0

\* the minimum is not reached at the first reference point
C4_Witness ==
    /\ ReturnedExhaustive
    /\ NumPoints(reference_points) = 2
    /\ NumPoints(query_points) = 2
    /\ d > 0
    /\ d < NearestDistance(query_points, reference_points[1])

(***************************************************************************)
(* C5.  Symmetry of the exhaustive method: called again with the two       *)
(* clouds swapped, it returns the distance it returned first.              *)
(***************************************************************************)
C5_ExhaustiveSymmetry ==
    (ReturnedExhaustive /\ call = 2) => d = d1

\* the swapped call has returned, for clouds of different sizes
C5_Witness ==
    /\ ReturnedExhaustive
    /\ call = 2
    /\ NumPoints(reference_points) # NumPoints(query_points)
    /\ d > 0

(***************************************************************************)
(* C6.  Swap symmetry of the 'new' method: for clouds with disjoint hulls, *)
(* the call with the clouds swapped returns the distance of the first      *)
(* call (ties broken by lowest index).  Violated: the two calls stop at    *)
(* different pairs of mutually nearest points.                             *)
(***************************************************************************)
C6_SwapSymmetry ==
    (ReturnedNew /\ call = 2 /\ LowestIndexTies
        /\ HullsDisjoint(reference_points, query_points))
        => d = d1

(***************************************************************************)
(* C7.  Empty input: with a cloud of zero points the call, once past its   *)
(* first statement, has raised the empty-input error; no kd-tree has been  *)
(* built, no query made, nothing returned.  Before that statement nothing  *)
(* has been done either.                                                   *)
(***************************************************************************)
C7_EmptyInput ==
    (NumPoints(reference_points) = 0 \/ NumPoints(query_points) = 0) =>
        /\ pc \in {"check_empty", "raised"}
        /\ pc = "raised" => error = "empty"
        /\ trees = {}
        /\ nn_calls = 0
        /\ d = NoResult

\* the error is raised for an empty query cloud and a non-empty reference cloud
C7_Witness ==
    /\ pc = "raised"
    /\ error = "empty"
    /\ NumPoints(reference_points) > 0
    /\ NumPoints(query_points) = 0

\* the clouds are non-empty and of different dimensions
Mismatched ==
    /\ NumPoints(reference_points) > 0
    /\ NumPoints(query_points) > 0
    /\ Dim(reference_points) # Dim(query_points)

(***************************************************************************)
(* C8.  Dimension mismatch, as claimed: the call ends in a dimension error *)
(* raised before any kd-tree is built and before any query is made.        *)
(* Violated: the error is that of the first query, made after the trees    *)
(* were built.                                                             *)
(***************************************************************************)
C8_DimensionFailFast ==
    (Mismatched /\ method \in {"new", "exhaustive"} /\ pc = "raised") =>
        /\ error = "dimension"
        /\ trees = {}
        /\ nn_calls = 0

(***************************************************************************)
(* C8, amended.  With non-empty clouds of different dimensions and method  *)
(* 'new' or 'exhaustive', the call ends in an error only: it is raised by  *)
(* the first nearest-neighbour query, after the kd-tree of the query cloud *)
(* (and, for 'new', that of the reference cloud) has been built; no query  *)
(* is answered and nothing is returned.                                    *)
(***************************************************************************)
C8_DimensionError ==
    (Mismatched /\ method \in {"new", "exhaustive"}) =>
        /\ pc \in {"check_empty", "build_query_tree", "method", "query_nn", "raised"}
        /\ d = NoResult
        /\ query_indices = <<>>
        /\ pc = "raised" =>
            /\ error = "dimension"
            /\ nn_calls = 1
            /\ "query_kd_tree" \in trees
            /\ method = "new" => "reference_kd_tree" \in trees

\* the first query of the 'new' method has raised
C8_Witness ==
    /\ Mismatched
    /\ method = "new"
    /\ pc = "raised"
    /\ error = "dimension"

(***************************************************************************)
(* C9.  Fixed point at termination: when the 'new' method has returned,    *)
(* its last query index q is the answer of the query kd-tree for the last  *)
(* reference point r, and a nearest query point to it; r is the answer of  *)
(* the reference kd-tree for q, and a nearest reference point to it; the   *)
(* distance returned is that between r and q.                              *)
(***************************************************************************)
C9_FixedPoint ==
    ReturnedNew =>
        LET r == Last(reference_indices)
            q == Last(query_indices)
            reference_point == reference_points[r + 1]
            query_point == query_points[q + 1]
        IN  /\ q \in Nearest(query_points, reference_point)
            /\ r \in Nearest(reference_points, query_point)
            /\ query_answers[reference_point] = q
            /\ reference_answers[query_point] = r
            /\ d = norm(reference_point, query_point)

\* the fixed point is not the starting point
C9_Witness ==
    /\ ReturnedNew
    /\ Len(reference_indices) = 2
    /\ Last(reference_indices) = 1
    /\ d > 0

\* each cloud has exactly one point, of one dimension
SinglePoints ==
    /\ NumPoints(reference_points) = 1
    /\ NumPoints(query_points) = 1
    /\ Dim(reference_points) = Dim(query_points)

(***************************************************************************)
(* C10.  Single-point boundary: with one point in each cloud the 'new'     *)
(* method makes one round trip only; it returns with reference_indices =   *)
(* [0], query_indices = [0] and the distance between the two points.       *)
(***************************************************************************)
C10_SinglePoint ==
    (SinglePoints /\ method = "new") =>
        /\ Len(reference_indices) <= 1
        /\ Len(query_indices) <= 1
        /\ nn_calls <= 2
        /\ pc = "returned" =>
            /\ reference_indices = <<0>>
            /\ query_indices = <<0>>
            /\ d = norm(reference_points[1], query_points[1])

\* the call on two distinct single points has returned
C10_Witness ==
    /\ SinglePoints
    /\ ReturnedNew
    /\ d > 0

\* a linear scan of the first k points of a cloud for the point nearest to x:
\* the first point at the smallest distance, the lowest index among ties
RECURSIVE LinearScan(_, _, _)
LinearScan(points, x, k) ==
    IF k = 1 THEN [index |-> 0, distance |-> norm(points[1], x)]
    ELSE LET best == LinearScan(points, x, k - 1)
             dk == norm(points[k], x)
         IN  IF dk < best.distance THEN [index |-> k - 1, distance |-> dk] ELSE best

Scenario ==
    /\ reference_points = ScenarioReference
    /\ query_points = ScenarioQuery

(***************************************************************************)
(* C12.  Concrete scenario: with reference cloud {(0,0), (10,10)} and      *)
(* query cloud {(0,1), (10,11)} the 'exhaustive' method returns 1, and the *)
(* 'new' method makes one round trip only and returns the pair (0, 0) with *)
(* distance 1.                                                             *)
(***************************************************************************)
C12_Scenario ==
    Scenario =>
        /\ ReturnedExhaustive => d = 1
        /\ method = "new" =>
            /\ Len(query_indices) <= 1
            /\ Len(reference_indices) <= 1
            /\ pc = "returned" =>
                /\ reference_indices = <<0>>
                /\ query_indices = <<0>>
                /\ d = 1

\* the 'new' method has returned on the scenario
C12_Witness == Scenario /\ ReturnedNew /\ nn_calls = 2

(***************************************************************************)
(* C13.  No side effects on inputs: no step of a call, whether it goes on, *)
(* returns or raises, changes the reference cloud or the query cloud (same *)
(* points, same order, same number); only the caller's next call, made     *)
(* after a return, is given other clouds.                                  *)
(***************************************************************************)
C13_InputsUnchanged ==
    [][pc # "returned" =>
          /\ reference_points' = reference_points
          /\ query_points' = query_points
          /\ method' = method]_vars

\* a first call on two clouds of two points has returned after two round trips
C13_Witness ==
    /\ ReturnedNew
    /\ call = 1
    /\ NumPoints(reference_points) = 2
    /\ NumPoints(query_points) = 2
    /\ query_points[1] # query_points[2]
    /\ Len(reference_indices) = 2

\* the point of index i (0-based) of a cloud
PointAt(points, i) == points[i + 1]

\* the trace starts at reference index 0 and alternates between nearest points
WellFormedTrace ==
    (method = "new" /\ Len(reference_indices) >= 1) =>
        /\ reference_indices[1] = 0
        /\ Len(query_indices) \in {Len(reference_indices) - 1, Len(reference_indices)}
        /\ \A i \in 1..Len(query_indices) :
              query_indices[i]
                  \in Nearest(query_points, PointAt(reference_points, reference_indices[i]))
        /\ \A i \in 1..(Len(reference_indices) - 1) :
              reference_indices[i + 1]
                  \in Nearest(reference_points, PointAt(query_points, query_indices[i]))

\* s is an initial part of t
Prefix(s, t) == Len(s) <= Len(t) /\ \A i \in 1..Len(s) : s[i] = t[i]

(***************************************************************************)
(* C14.  Trace well-formedness: in every state of the 'new' method the     *)
(* trace starts with reference index 0, every query_indices[i] is a        *)
(* nearest query point of reference point reference_indices[i], and every  *)
(* reference_indices[i+1] a nearest reference point of query point         *)
(* query_indices[i]; no step of the call changes or removes an entry of    *)
(* either list: they grow by appending only.                               *)
(***************************************************************************)
C14_TraceWellFormed ==
    /\ []WellFormedTrace
    /\ [][pc # "returned" =>
             /\ Prefix(reference_indices, reference_indices')
             /\ Prefix(query_indices, query_indices')]_vars

\* the second round trip has found another query point than the first
C14_Witness ==
    /\ pc = "reference_nn"
    /\ Len(reference_indices) = 2
    /\ Len(query_indices) = 2
    /\ query_indices[2] # query_indices[1]

\* the distance of the k-th round trip: between reference point
\* reference_indices[k] and query point query_indices[k] (k from 1)
RoundTripDistance(k) ==
    norm(PointAt(reference_points, reference_indices[k]),
         PointAt(query_points, query_indices[k]))

(***************************************************************************)
(* C15.  Monotone round-trip distance: when the convex hulls of the two    *)
(* clouds are disjoint, the distances of the successive round trips of the *)
(* 'new' method never increase.                                            *)
(***************************************************************************)
C15_MonotoneDistance ==
    (method = "new" /\ Len(query_indices) >= 2) =>
        \/ \A k \in 1..(Len(query_indices) - 1) :
              RoundTripDistance(k + 1) <= RoundTripDistance(k)
        \/ ~HullsDisjoint(reference_points, query_points)

\* on disjoint hulls, the second round trip is strictly shorter than the first
C15_Witness ==
    /\ method = "new"
    /\ Len(query_indices) = 2
    /\ HullsDisjoint(reference_points, query_points)
    /\ RoundTripDistance(2) < RoundTripDistance(1)

\* Started at index 0 with lowest-index ties, the loop on clouds A and B never
\* breaks: it is deterministic, so a run of more round trips than A has points
\* has come back to an anchor and repeats from there for ever.
CyclesForever(A, B) == ~ReachesFixedPoint(A, B, 0, NumPoints(A))

(***************************************************************************)
(* C16.  Cycling, as claimed: there is a pair of non-empty clouds of one   *)
(* dimension on which the alternation, ties broken by lowest index, cycles *)
(* between anchors and never reaches a fixed point.  Violated: there is no *)
(* such pair among the inputs, the clouds of the call at hand included.    *)
(***************************************************************************)
C16_CyclingExists ==
    \E input \in Inputs \cup {<<reference_points, query_points>>} :
        /\ NumPoints(input[1]) > 0
        /\ NumPoints(input[2]) > 0
        /\ Dim(input[1]) = Dim(input[2])
        /\ CyclesForever(input[1], input[2])

(***************************************************************************)
(* C16, amended.  With ties broken by lowest index the alternation does    *)
(* not cycle, on overlapping or interleaved clouds either: every move to   *)
(* another anchor either shortens the round-trip distance, or keeps it and *)
(* goes to a lower reference index, so no anchor comes back.               *)
(***************************************************************************)
C16_NoCycle ==
    (method = "new" /\ LowestIndexTies) =>
        \A k \in 1..(Len(query_indices) - 1) :
            \/ RoundTripDistance(k + 1) < RoundTripDistance(k)
            \/ /\ RoundTripDistance(k + 1) = RoundTripDistance(k)
               /\ reference_indices[k + 1] < reference_indices[k]

\* on clouds whose hulls overlap, with lowest-index ties, the loop has moved to
\* another anchor and reached a fixed point there
C16_Witness ==
    /\ ReturnedNew
    /\ LowestIndexTies
    /\ ~HullsDisjoint(reference_points, query_points)
    /\ ~HullsDisjoint(query_points, reference_points)
    /\ Len(reference_indices) = 2

\* no index appears twice in s
NoRepeat(s) == \A i, j \in 1..Len(s) : s[i] = s[j] => i = j

(***************************************************************************)
(* C17.  Bounded termination without a cap: when both kd-trees break ties  *)
(* by lowest index, no reference index appears twice in reference_indices, *)
(* for overlapping clouds too; the loop body runs at most n times, n the   *)
(* size of the reference cloud, and the loop is never left waiting: from   *)
(* every position in it the call has a next step.                          *)
(***************************************************************************)
C17_BoundedTermination ==
    (method = "new" /\ LowestIndexTies) =>
        /\ NoRepeat(reference_indices)
        /\ Len(reference_indices) <= NumPoints(reference_points)
        /\ Len(query_indices) <= NumPoints(reference_points)
        /\ pc \in {"query_nn", "reference_nn", "return"}
              => ENABLED (QueryNearest \/ ReferenceNearest \/ ReturnNew)

\* the loop body has run n = 2 times, and a kd-tree had to break a tie
C17_Witness ==
    /\ ReturnedNew
    /\ LowestIndexTies
    /\ NumPoints(reference_points) = 2
    /\ Len(query_indices) = 2
    /\ \E x \in DOMAIN query_answers :
          Cardinality(Nearest(query_points, x)) = 2

(***************************************************************************)
(* C18.  Upper bound: when the 'new' method has returned, its last indices *)
(* are indices of the two clouds, the distance returned is that of this    *)
(* pair of points, and it is at least what the exhaustive method computes  *)
(* on the same clouds.                                                     *)
(***************************************************************************)
C18_UpperBound ==
    ReturnedNew =>
        /\ Last(reference_indices) \in Indices(reference_points)
        /\ Last(query_indices) \in Indices(query_points)
        /\ d = norm(PointAt(reference_points, Last(reference_indices)),
                    PointAt(query_points, Last(query_indices)))
        /\ d >= amin(distances)

\* the distance returned is larger than that of the exhaustive method
C18_Witness ==
    /\ ReturnedNew
    /\ d > amin(distances)

(***************************************************************************)
(* C19.  Trace lengths: at the top of every loop iteration query_indices   *)
(* is one shorter than reference_indices; when the 'new' method has        *)
(* returned the two lists have the same length, at least 1, so that every  *)
(* position show_search_path reads exists in both lists and holds an index *)
(* of its cloud.                                                           *)
(***************************************************************************)
C19_TraceLengths ==
    method = "new" =>
        /\ pc = "query_nn" => Len(query_indices) = Len(reference_indices) - 1
        /\ pc = "returned" =>
            /\ Len(query_indices) = Len(reference_indices)
            /\ Len(reference_indices) >= 1
            /\ \A i \in SearchPathReads :
                  /\ i < Len(reference_indices)
                  /\ i < Len(query_indices)
                  /\ reference_indices[i + 1] \in Indices(reference_points)
                  /\ query_indices[i + 1] \in Indices(query_points)

\* show_search_path has a segment to draw: it reads positions 0 and 1
C19_Witness ==
    /\ ReturnedNew
    /\ call = 1
    /\ SearchPathReads = {0, 1}

(***************************************************************************)
(* C20.  Invalid method: with a method other than 'new' and 'exhaustive'   *)
(* the call returns nothing; for non-empty clouds it ends in the method    *)
(* error, whatever their dimensions; with an empty cloud the error raised  *)
(* is the empty-input error, for every method.                             *)
(***************************************************************************)
C20_InvalidMethod ==
    /\ method \notin {"new", "exhaustive"} =>
        /\ pc \in {"check_empty", "build_query_tree", "method", "raised"}
        /\ d = NoResult
        /\ reference_indices = <<>>
        /\ nn_calls = 0
        /\ pc = "raised" =>
            error = IF NumPoints(reference_points) = 0 \/ NumPoints(query_points) = 0
                    THEN "empty" ELSE "method"
    /\ (pc = "raised"
          /\ (NumPoints(reference_points) = 0 \/ NumPoints(query_points) = 0))
        => error = "empty"

\* the method error has been raised, after the kd-tree of the query cloud was built
C20_Witness ==
    /\ pc = "raised"
    /\ error = "method"
    /\ trees = {"query_kd_tree"}

====
